---- MODULE Spec2Model ----
(***************************************************************************)
(* Orchestration core of agent_company_ai: Task / TaskBoard, MessageBus,   *)
(* Agent.think and Company (assign, _run_task, _handle_delegation,         *)
(* run_goal, request_stop, hire, fire).                                    *)
(*                                                                         *)
(* The program is a single asyncio event loop.  A step of the model is one *)
(* atomic block of one coroutine: the code it runs between two awaits that *)
(* really suspend (provider.complete, db.execute, tool.execute, gather).   *)
(* The LLM is opaque: every response is drawn from Responses.              *)
(* CostTracker amounts are integers: prices in cents per million tokens,   *)
(* costs in units of 1e-8 USD, rounded amounts in units of 1e-6 USD.       *)
(***************************************************************************)
EXTENDS Integers, Sequences, FiniteSets, TLC

VARIABLES
    cfg,             \* config.autonomous (the limits of run_goal)
    agents,          \* Company.agents: names of the live agents, insertion order
    tasks,           \* every Task object ever created; the index is the task id
    board,           \* TaskBoard._tasks: ids of the registered tasks
    history,         \* MessageBus._history
    rejections,      \* Agent._result_rejections, per agent
    runners,         \* the running _run_task coroutines (call stack + think locals)
    goal,            \* the locals of the run_goal coroutine
    running,         \* Company._running
    stop_requested,  \* Company._stop_requested
    elapsed,         \* time.monotonic() - start_time, in budget units
    spawning,        \* assign() calls suspended between TaskBoard.add and create_task
    staff_ops,       \* number of hire / fire calls made so far
    scn,             \* the scenario: what the environment (owner, LLM) may do
    stop_at,         \* where run_goal was (goal.pc) when request_stop was last called
    inboxes,         \* MessageBus._agent_inboxes: registered name -> queued messages
    publishing,      \* publish() calls of the owner suspended in the global listener
    tracker          \* Company.cost_tracker

vars == <<cfg, agents, tasks, board, history, rejections, runners, goal,
          running, stop_requested, elapsed, spawning, staff_ops, scn, stop_at,
          inboxes, publishing, tracker>>

-----------------------------------------------------------------------------
(* Bounds of the model *)

MaxCalls == 2          \* tool calls in one assistant turn
MaxDelegations == 2    \* subtasks created by delegate_task
MaxUserTasks == 1      \* tasks created by assign()
MaxStaffOps == 1       \* hire / fire calls
MaxElapsed == 1        \* clock ticks
BigPlanTurns == 21     \* turns (and delegations) of the planning task in BigPlan
MaxBusMsgs == 3        \* messages published in the bus scenario
MaxBusStaffOps == 2    \* hire / fire calls in the bus scenario
MaxRecords == 2        \* CostTracker.record calls in the cost scenario
MaxFaults == 1         \* _run_task calls of one wave that raise

-----------------------------------------------------------------------------
(* Program constants *)

MIN_DELIVERABLE_LEN == 300
MAX_REJECTIONS == 2
DELEGATION_HISTORY_LIMIT == 20

-----------------------------------------------------------------------------
(* Roles and agents.  Alex is the CEO, Bo and Cy are two developers, no    *)
(* agent has the role "ops".                                               *)

AgentNames == {"Alex", "Bo", "Cy"}
Roles == {"ceo", "dev", "ops"}
RoleOf == [n \in AgentNames |->
             IF n = "Alex" THEN "ceo" ELSE "dev"]
NoAgent == "none"

\* Role.can_delegate_to: the CEO's role names every role as a delegation
\* target, a role created without targets (the default) names none
can_delegate_to ==
    [ro \in Roles |-> IF ro = "ceo" THEN Roles ELSE {}]
Ghost == "ghost"       \* an assignee name no agent has

-----------------------------------------------------------------------------
(* Texts: what matters of a string is which string it is, its length and   *)
(* the length of its strip().                                              *)

Text(id, len, slen) == [id |-> id, len |-> len, slen |-> slen]

None == Text("None", 0, 0)
A_SHORT == Text("assistant: short note", 20, 20)
A_PAD == Text("assistant: text padded with blanks", 305, 295)
A_LONG == Text("assistant: full deliverable", 320, 320)
R_SHORT == Text("report: too short", 9, 9)
R_LONG == Text("report: full deliverable", 400, 400)

NO_RESULT == Text("No result produced.", 19, 19)
NO_AGENT_NAMED == Text("No agent named", 14, 14)
LLM_ERROR == Text("str(e)", 6, 6)
NO_PROVIDER == Text("LLM provider not configured.", 28, 28)
EXCEEDED == Text("Exceeded maximum iterations without completing.", 47, 47)
NO_AGENT_AVAILABLE == Text("No agent available for delegation.", 34, 34)

Contents == {None, A_SHORT, A_PAD, A_LONG}
ReportResults == {R_SHORT, R_LONG}

-----------------------------------------------------------------------------
(* Task, TaskStatus *)

PENDING == "pending"
ASSIGNED == "assigned"
IN_PROGRESS == "in_progress"
DONE == "done"
FAILED == "failed"

\* Task.create: ASSIGNED when an assignee is given, PENDING otherwise
Task_create(assignee, parent_id, kind) ==
    [assignee |-> assignee,
     status |-> IF assignee # NoAgent THEN ASSIGNED ELSE PENDING,
     parent_id |-> parent_id,
     result |-> None,
     kind |-> kind]

Task_assign(t, agent_name) == [t EXCEPT !.assignee = agent_name, !.status = ASSIGNED]

Task_start(t) == [t EXCEPT !.status = IN_PROGRESS]

\* a variant of Task.complete that does not store the result
Task_complete_no_result(t, result) == [t EXCEPT !.status = DONE]

Task_complete(t, result) == [t EXCEPT !.status = DONE, !.result = result]

Task_fail(t, reason) == [t EXCEPT !.status = FAILED, !.result = reason]

is_terminal(t) == t.status \in {DONE, FAILED}

\* Task.subtasks of task id p, as the ids of its children in creation order
SubIds(ts, p) == {j \in 1..Len(ts) : ts[j].parent_id = p}

NthSub(ts, p, i) ==
    CHOOSE j \in SubIds(ts, p) : Cardinality({k \in SubIds(ts, p) : k <= j}) = i

NumSubs(ts, p) == Cardinality(SubIds(ts, p))

-----------------------------------------------------------------------------
(* MessageBus *)

TOPIC_DELEGATE == "task.delegate"
TOPIC_COMPLETED == "task.completed"

\* BusMessage; to_agent = NoAgent is a broadcast, from_agent = NoAgent the owner.
\* to_role and task_id are the fields of the JSON content of a task.delegate message
BusMessage(from, to, topic, to_role, task_id) ==
    [topic |-> topic, from_agent |-> from, to_agent |-> to, to_role |-> to_role,
     task_id |-> task_id]

\* a variant of DelegateMsg that names the task before the new subtask
DelegateMsgStale(from, to_role, task_id) ==
    BusMessage(from, NoAgent, TOPIC_DELEGATE, to_role, task_id - 1)

DelegateMsg(from, to_role, task_id) == BusMessage(from, NoAgent, TOPIC_DELEGATE, to_role, task_id)

CompletedMsg(from) == BusMessage(from, NoAgent, TOPIC_COMPLETED, "", 0)

\* no message
NoMsg == BusMessage(NoAgent, NoAgent, "", "", 0)

\* MessageBus.register_agent / unregister_agent
register_agent(inb, name) ==
    [a \in DOMAIN inb \cup {name} |-> IF a = name THEN <<>> ELSE inb[a]]

\* a variant of unregister_agent that leaves the inbox registered
unregister_agent_keep(inb, name) == inb

unregister_agent(inb, name) == [a \in (DOMAIN inb) \ {name} |-> inb[a]]

\* MessageBus.publish, lines 64-72: the deliveries to the inboxes
\* a variant of deliver in which a broadcast also reaches its sender
deliver_to_all(inb, msg) ==
    [a \in DOMAIN inb |->
        IF \/ msg.to_agent # NoAgent /\ msg.to_agent # "" /\ a = msg.to_agent
           \/ msg.to_agent = NoAgent
        THEN Append(inb[a], msg) ELSE inb[a]]

deliver(inb, msg) ==
    [a \in DOMAIN inb |->
        IF \/ msg.to_agent # NoAgent /\ msg.to_agent # "" /\ a = msg.to_agent
           \/ msg.to_agent = NoAgent /\ a # msg.from_agent
        THEN Append(inb[a], msg)
        ELSE inb[a]]

\* MessageBus.get_history: filter by topic, then messages[-limit:]
get_history(h, limit, topic) ==
    LET m == SelectSeq(h, LAMBDA x : x.topic = topic)
        n == Len(m)
    IN  IF limit = 0 \/ limit >= n THEN m ELSE SubSeq(m, n - limit + 1, n)

-----------------------------------------------------------------------------
(* Company.get_agent_by_role: the first live agent with the role *)

RoleMatches(ags, role_name) == {k \in 1..Len(ags) : RoleOf[ags[k]] = role_name}

get_agent_by_role(ags, role_name) ==
    LET ks == RoleMatches(ags, role_name)
    IN  IF ks = {} THEN NoAgent
        ELSE ags[CHOOSE k \in ks : \A k2 \in ks : k <= k2]

IsLive(ags, name) == \E k \in 1..Len(ags) : ags[k] = name

\* The scan of Company._handle_delegation: newest message first, the first
\* message with the subtask's id whose role has a live agent decides.
RECURSIVE ScanDelegations(_, _, _, _)
ScanDelegations(m, k, ags, sid) ==
    IF k = 0 THEN NoAgent
    ELSE IF m[k].task_id = sid /\ get_agent_by_role(ags, m[k].to_role) # NoAgent
         THEN get_agent_by_role(ags, m[k].to_role)
         ELSE ScanDelegations(m, k - 1, ags, sid)

resolve_delegation(h, ags, sid) ==
    LET m == get_history(h, DELEGATION_HISTORY_LIMIT, TOPIC_DELEGATE)
    IN  ScanDelegations(m, Len(m), ags, sid)

-----------------------------------------------------------------------------
(* CostTracker.  A model name is the sequence of the parts of the string   *)
(* between its hyphens; for the names used here str.startswith is the      *)
(* prefix order of these sequences.                                        *)

CLAUDE_SONNET == <<"claude", "sonnet", "4", "5", "20250929">>
CLAUDE_OPUS == <<"claude", "opus", "4", "6">>
CLAUDE_HAIKU == <<"claude", "haiku", "4", "5", "20251001">>
GPT_4O == <<"gpt", "4o">>
GPT_4O_MINI == <<"gpt", "4o", "mini">>
GPT_4_TURBO == <<"gpt", "4", "turbo">>
GPT_35_TURBO == <<"gpt", "3.5", "turbo">>

\* cost_tracker.py 11-21, in the order of the dict; cents per million tokens
DEFAULT_PRICING ==
    <<[model |-> CLAUDE_SONNET, input |-> 300, output |-> 1500],
      [model |-> CLAUDE_OPUS, input |-> 1500, output |-> 7500],
      [model |-> CLAUDE_HAIKU, input |-> 80, output |-> 400],
      [model |-> GPT_4O, input |-> 250, output |-> 1000],
      [model |-> GPT_4O_MINI, input |-> 15, output |-> 60],
      [model |-> GPT_4_TURBO, input |-> 1000, output |-> 3000],
      [model |-> GPT_35_TURBO, input |-> 50, output |-> 150]>>

\* str.startswith
startswith(model, key) ==
    Len(key) <= Len(model) /\ SubSeq(model, 1, Len(key)) = key

\* cost_tracker.py 57-63: the pricing entry used for a model, 0 if there is none:
\* the entry of that name, else the first entry in dict order that is a prefix
pricing_for(pricing, model) ==
    LET exact == {k \in 1..Len(pricing) : pricing[k].model = model}
        pre == {k \in 1..Len(pricing) : startswith(model, pricing[k].model)}
    IN  IF exact # {} THEN CHOOSE k \in exact : TRUE
        ELSE IF pre # {} THEN CHOOSE k \in pre : \A k2 \in pre : k <= k2
        ELSE 0

\* CostTracker.estimate_cost, in units of 1e-8 USD
estimate_cost(pricing, model, input_tokens, output_tokens) ==
    LET k == pricing_for(pricing, model)
    IN  IF k = 0 THEN 0
        ELSE input_tokens * pricing[k].input + output_tokens * pricing[k].output

\* CostTracker.__init__
NewTracker ==
    [records |-> <<>>, total_input_tokens |-> 0, total_output_tokens |-> 0,
     total_cost_usd |-> 0]

\* CostTracker.record
record(tr, agent, model, input_tokens, output_tokens) ==
    LET cost == estimate_cost(DEFAULT_PRICING, model, input_tokens, output_tokens)
    IN  [records |-> Append(tr.records,
                            [agent |-> agent, model |-> model,
                             input_tokens |-> input_tokens,
                             output_tokens |-> output_tokens, cost_usd |-> cost]),
         total_input_tokens |-> tr.total_input_tokens + input_tokens,
         total_output_tokens |-> tr.total_output_tokens + output_tokens,
         total_cost_usd |-> tr.total_cost_usd + cost]

\* round(x, 6): from units of 1e-8 USD to units of 1e-6 USD, ties to even
round6(x) ==
    LET q == x \div 100
        r == x % 100
    IN  IF r < 50 THEN q
        ELSE IF r > 50 THEN q + 1
        ELSE IF q % 2 = 0 THEN q ELSE q + 1

RECURSIVE SumCost(_, _, _, _)
\* the sum of cost_usd over the first n records whose field has the value
SumCost(recs, n, field, value) ==
    IF n = 0 THEN 0
    ELSE SumCost(recs, n - 1, field, value)
         + (IF recs[n][field] = value THEN recs[n].cost_usd ELSE 0)

\* CostTracker.summary
summary(tr) ==
    LET recs == tr.records
        ags == {recs[k].agent : k \in 1..Len(recs)}
        models == {recs[k].model : k \in 1..Len(recs)}
    IN  [total_cost_usd |-> round6(tr.total_cost_usd),
         total_input_tokens |-> tr.total_input_tokens,
         total_output_tokens |-> tr.total_output_tokens,
         total_tokens |-> tr.total_input_tokens + tr.total_output_tokens,
         api_calls |-> Len(recs),
         by_agent |-> [a \in ags |->
                         round6(SumCost(recs, Len(recs), "agent", a))],
         by_model |-> [m \in models |->
                         round6(SumCost(recs, Len(recs), "model", m))]]

\* no usage reported by the provider
NoUsage == [model |-> <<>>, input_tokens |-> 0, output_tokens |-> 0]

\* Agent._track_usage
track_usage(tr, agent, usage) ==
    IF usage = NoUsage THEN tr
    ELSE record(tr, agent, usage.model, usage.input_tokens, usage.output_tokens)

-----------------------------------------------------------------------------
(* LLM responses (provider.complete) and tool calls *)

Report(status, result) ==
    [name |-> "report_result", status |-> status, result |-> result,
     to_role |-> "", outcome |-> ""]

Delegate(to_role) ==
    [name |-> "delegate_task", status |-> "", result |-> None,
     to_role |-> to_role, outcome |-> ""]

\* any other tool name: found and returns, found and raises, or not in the registry
Tool(outcome) ==
    [name |-> "tool", status |-> "", result |-> None,
     to_role |-> "", outcome |-> outcome]

DelegRoles == {"dev", "ops"}

ToolCalls ==
    {Report(s, x) : s \in {"done", "failed"}, x \in ReportResults}
    \cup {Delegate(ro) : ro \in DelegRoles}
    \cup {Tool(o) : o \in {"ok", "raise", "unknown"}}

CallSeqs == UNION {[1..n -> ToolCalls] : n \in 0..MaxCalls}

Responses ==
    {[exc |-> TRUE, content |-> None, calls |-> <<>>]}
    \cup {[exc |-> FALSE, content |-> c, calls |-> cs] : c \in Contents, cs \in CallSeqs}

\* a plain LLM: it fails, answers with a full text, or delegates
PlainResponses ==
    {[exc |-> TRUE, content |-> None, calls |-> <<>>]}
    \cup {[exc |-> FALSE, content |-> A_LONG, calls |-> cs] :
            cs \in UNION {[1..n -> {Delegate(ro) : ro \in DelegRoles}] : n \in 0..MaxCalls}}

\* a terse LLM: it only ever calls report_result(status = "done")
TerseResponses ==
    {[exc |-> FALSE, content |-> None, calls |-> cs] :
        cs \in UNION {[1..n -> {Report("done", x) : x \in ReportResults}] : n \in 1..MaxCalls}}

\* a delegating LLM: every turn delegates one task to a developer, or ends
DelegatorResponses ==
    {[exc |-> FALSE, content |-> A_LONG, calls |-> cs] : cs \in {<<>>, <<Delegate("dev")>>}}

\* an obedient LLM: it answers with the full text at once
ObedientResponses == {[exc |-> FALSE, content |-> A_LONG, calls |-> <<>>]}

\* a planning LLM: it delegates to the CEO's and the developers' roles, one
\* or two tasks a turn, or ends
PlannerResponses ==
    {[exc |-> FALSE, content |-> A_LONG, calls |-> cs] :
        cs \in UNION {[1..n -> {Delegate("ceo"), Delegate("dev")}] : n \in 0..2}}

\* the responses the scenario allows for a task of the given kind
ResponsesFor(kind) ==
    CASE scn.llm[kind] = "full" -> Responses
      [] scn.llm[kind] = "planner" -> PlannerResponses
      [] scn.llm[kind] = "terse" -> TerseResponses
      [] scn.llm[kind] = "delegator" -> DelegatorResponses
      [] scn.llm[kind] = "obedient" -> ObedientResponses
      [] scn.llm[kind] = "none" -> {}
      [] OTHER -> PlainResponses

NumDelegates(cs) == Cardinality({k \in 1..Len(cs) : cs[k].name = "delegate_task"})

NumDelegated(ts) == Cardinality({j \in 1..Len(ts) : ts[j].kind = "sub"})

NumUserTasks(ts) == Cardinality({j \in 1..Len(ts) : ts[j].kind = "user"})

-----------------------------------------------------------------------------
(* Runners: one per running top-level _run_task coroutine.  stack is the   *)
(* chain _run_task -> _handle_delegation -> _run_task ...; a frame is the  *)
(* task of a _run_task call and the position i of its loop over            *)
(* task.subtasks.  pc, agent, iter, best, calls, rejected belong to the    *)
(* innermost call:                                                         *)
(*   "begin"    _run_task not yet entered (or suspended in _persist_task)  *)
(*   "llm"      think suspended in provider.complete                       *)
(*   "report2"  report_result accepted, suspended in _register_artifact    *)
(*   "resume"   a tool call suspended (bus listener, tool.execute)         *)
(*   "post"     think returned, suspended in the UPDATE of _run_task       *)
(* seen is the set of assistant texts in the transcript (messages), rejected *)
(* the number of its tool results that begin with "REJECTED", ret the      *)
(* return statement think left by.                                         *)

Inline == <<"inline", 0>>          \* the _run_task calls awaited by run_goal itself
WaveRunner(t) == <<"wave", t>>     \* a coroutine of the gather of a wave
BgRunner(t) == <<"bg", t>>         \* asyncio.create_task(_run_task(task)) of assign

NewRunner(t) ==
    [stack |-> <<[t |-> t, i |-> 1]>>, pc |-> "begin", agent |-> NoAgent,
     iter |-> 0, best |-> None, calls |-> <<>>, rejected |-> 0, seen |-> {},
     ret |-> "", msg |-> NoMsg]

ClearLocals(run) ==
    [run EXCEPT !.agent = NoAgent, !.iter = 0, !.best = None, !.calls = <<>>,
                !.rejected = 0, !.seen = {}, !.ret = "", !.msg = NoMsg]

TopFrame(run) == run.stack[Len(run.stack)]

CurTask(run) == TopFrame(run).t

State == [tasks |-> tasks, board |-> board, history |-> history,
          rejections |-> rejections, runners |-> runners, goal |-> goal,
          inboxes |-> inboxes, tracker |-> tracker]

DropRunner(rs, r) == [x \in (DOMAIN rs) \ {r} |-> rs[x]]

-----------------------------------------------------------------------------
(* Agent.think and Agent._execute_tool *)

\* a variant of keep_best that keeps the latest assistant text
keep_best_latest(best, content) ==
    IF content.len > 0 THEN content ELSE best

\* agent.py 186-189: keep the longest assistant text
keep_best(best, content) ==
    IF content.len > 0 /\ content.len > best.len THEN content ELSE best

\* agent.py 251-256: fall back to the best assistant text if the result is short
substitute(result, assistant_text) ==
    IF result.slen < MIN_DELIVERABLE_LEN /\ assistant_text.slen > result.slen
    THEN assistant_text ELSE result

\* agent.py 261-265
should_reject(status, result, n_rejections) ==
    /\ status = "done"
    /\ result.slen < MIN_DELIVERABLE_LEN
    /\ n_rejections < MAX_REJECTIONS

\* agent.py 226
salvageable(best) == best.len > 0 /\ best.len >= MIN_DELIVERABLE_LEN

\* think has returned to _run_task, which suspends in its UPDATE (company.py 362)
think_return(S, r, ret) ==
    [S EXCEPT !.runners[r] = [@ EXCEPT !.pc = "post", !.ret = ret, !.agent = NoAgent,
                                       !.iter = 0, !.best = None, !.calls = <<>>,
                                       !.rejected = 0, !.msg = NoMsg]]

\* agent.py 223-237: the iteration budget is exhausted
exhaust(S, r) ==
    LET run == S.runners[r]
        t == CurTask(run)
    IN  IF salvageable(run.best)
        THEN think_return([S EXCEPT !.tasks[t] = Task_complete(@, run.best)], r, "salvaged")
        ELSE think_return([S EXCEPT !.tasks[t] = Task_fail(@, EXCEEDED)], r, "exceeded")

\* a variant of loop_top that allows one more iteration
loop_top_one_more(S, r) ==
    IF S.runners[r].iter <= cfg.max_agent_iterations
    THEN [S EXCEPT !.runners[r].pc = "llm"]
    ELSE exhaust(S, r)

\* agent.py 171-176: top of the for loop
loop_top(S, r) ==
    IF S.runners[r].iter < cfg.max_agent_iterations
    THEN [S EXCEPT !.runners[r].pc = "llm"]
    ELSE exhaust(S, r)

RECURSIVE exec_calls(_, _)

\* agent.py 213-221: _execute_tool returned; the is_terminal check
after_tool(S, r, tool_result) ==
    LET run == S.runners[r]
        t == CurTask(run)
    IN  IF is_terminal(S.tasks[t])
        THEN think_return(S, r, "reported")
        ELSE exec_calls([S EXCEPT !.runners[r].calls = Tail(@),
                                  !.runners[r].rejected =
                                      IF tool_result = "REJECTED" THEN @ + 1 ELSE @], r)

\* agent.py 208-211 and 239-338: run the tool calls of the turn up to the next
\* await that suspends
exec_calls(S, r) ==
    LET run == S.runners[r]
        t == CurTask(run)
    IN  IF run.calls = <<>> THEN loop_top(S, r)
        ELSE LET c == Head(run.calls) IN
             CASE c.name = "report_result" ->
                    LET result == substitute(c.result, run.best) IN
                    IF should_reject(c.status, result, S.rejections[run.agent])
                    THEN after_tool([S EXCEPT !.rejections[run.agent] = @ + 1], r, "REJECTED")
                    ELSE IF c.status = "done"
                    THEN [S EXCEPT !.tasks[t] = Task_complete(@, result),
                                   !.runners[r].pc = "report2"]
                    ELSE [S EXCEPT !.tasks[t] = Task_fail(@, result),
                                   !.history = Append(@, CompletedMsg(run.agent)),
                                   !.runners[r].msg = CompletedMsg(run.agent),
                                   !.runners[r].pc = "resume"]
               [] c.name = "delegate_task" ->
                    LET msg == DelegateMsg(run.agent, c.to_role, Len(S.tasks) + 1) IN
                    [S EXCEPT !.tasks = Append(@, Task_create(NoAgent, t, "sub")),
                              !.history = Append(@, msg),
                              !.runners[r].msg = msg,
                              !.runners[r].pc = "resume"]
               [] OTHER ->
                    IF c.outcome = "unknown"
                    THEN after_tool(S, r, "Error: Unknown tool")
                    ELSE [S EXCEPT !.runners[r].pc = "resume"]

\* a variant of tool_resume in which the exception of a tool fails the task
tool_resume_fatal(S, r) ==
    LET run == S.runners[r] IN
    IF run.pc = "report2"
    THEN [S EXCEPT !.history = Append(@, CompletedMsg(run.agent)),
                   !.runners[r].msg = CompletedMsg(run.agent),
                   !.runners[r].pc = "resume"]
    ELSE IF run.msg # NoMsg
    THEN after_tool([S EXCEPT !.inboxes = deliver(@, run.msg),
                              !.runners[r].msg = NoMsg], r, "")
    ELSE IF Head(run.calls).outcome = "raise"
    THEN think_return([S EXCEPT !.tasks[CurTask(run)] = Task_fail(@, LLM_ERROR)], r, "error")
    ELSE after_tool(S, r, "")

\* the suspended tool call is resumed: after _register_artifact the result is
\* published; after the global listener of publish the message is delivered;
\* tool.execute returns or raises (agent.py 323-326)
tool_resume(S, r) ==
    LET run == S.runners[r] IN
    IF run.pc = "report2"
    THEN [S EXCEPT !.history = Append(@, CompletedMsg(run.agent)),
                   !.runners[r].msg = CompletedMsg(run.agent),
                   !.runners[r].pc = "resume"]
    ELSE IF run.msg # NoMsg
    THEN after_tool([S EXCEPT !.inboxes = deliver(@, run.msg),
                              !.runners[r].msg = NoMsg], r, "")
    ELSE after_tool(S, r, IF Head(run.calls).outcome = "raise" THEN "Tool error" ELSE "")

\* agent.py 171-206: provider.complete returned or raised
llm_respond(S, r, resp) ==
    LET run == S.runners[r]
        t == CurTask(run)
    IN  IF resp.exc
        THEN think_return([S EXCEPT !.tasks[t] = Task_fail(@, LLM_ERROR)], r, "error")
        ELSE LET S1 == [S EXCEPT !.tracker = track_usage(@, run.agent, scn.usage),
                                 !.runners[r].iter = @ + 1,
                                 !.runners[r].best = keep_best(@, resp.content),
                                 !.runners[r].calls = resp.calls]
             IN  IF resp.calls = <<>>
                 THEN think_return(
                        [S1 EXCEPT !.tasks[t] = Task_complete(@,
                            IF resp.content.len > 0 THEN resp.content ELSE NO_RESULT),
                                   !.runners[r].seen = @ \cup {resp.content}], r,
                        "content")
                 ELSE exec_calls([S1 EXCEPT !.runners[r].seen = @ \cup {resp.content}], r)

-----------------------------------------------------------------------------
(* Company.run_goal: the blocks of the coroutine.  goal.pc:                *)
(*   "idle"      not called                                                *)
(*   "persist"   suspended in the INSERT INTO goals (company.py 423)       *)
(*   "plan"      awaiting _run_task(plan_task)                             *)
(*   "wave"      awaiting the gather of a wave                             *)
(*   "review"    awaiting _run_task(review_task)                           *)
(*   "finalize"  suspended in the UPDATE goals (company.py 580)            *)
(*   "done"      returned;  "raised"  left by the ValueError of line 431   *)

\* db is the status of the goal's row in the goals table, emitted the events
\* run_goal has emitted, checks the number of times the stop conditions at
\* the top of the cycle loop were evaluated, gathered the tasks whose _run_task
\* the gather of the current wave awaits, errors those of them whose _run_task
\* raised (the exceptions in the result of the gather), again the position of
\* a second run_goal call made while the first is under way ("idle",
\* "persist", "raised")
NotStarted ==
    [pc |-> "idle", ceo |-> NoAgent, cycle |-> 0, wave |-> 0, plan |-> 0,
     review |-> 0, final |-> "none", db |-> "none", emitted |-> {}, checks |-> 0,
     gathered |-> {}, errors |-> {}, again |-> "idle"]

time_exceeded == cfg.max_time_seconds > 0 /\ elapsed >= cfg.max_time_seconds

\* company.py 579-583
finalize(S) == [S EXCEPT !.goal.pc = "finalize"]

\* a variant of cycle_top whose task limit is reached only above max_total_tasks
cycle_top_above(S) ==
    LET S1 == [S EXCEPT !.goal.checks = @ + 1] IN
    IF S.goal.cycle >= cfg.max_cycles THEN finalize(S)
    ELSE IF stop_requested THEN finalize([S1 EXCEPT !.goal.final = "cancelled"])
    ELSE IF time_exceeded THEN finalize([S1 EXCEPT !.goal.final = "failed"])
    ELSE IF Cardinality(S.board) > cfg.max_total_tasks
         THEN finalize([S1 EXCEPT !.goal.final = "failed"])
    ELSE IF cfg.max_cost_usd > 0 /\ S.tracker.total_cost_usd >= cfg.max_cost_usd
         THEN finalize([S1 EXCEPT !.goal.final = "failed"])
    ELSE LET id == Len(S.tasks) + 1 IN
         [S1 EXCEPT !.tasks = Append(@, Task_create(S.goal.ceo, 0, "plan")),
                    !.board = @ \cup {id},
                    !.goal.plan = id,
                    !.goal.wave = 0,
                    !.goal.pc = "plan",
                    !.runners = @ @@ (Inline :> NewRunner(id))]

\* company.py 546-564: the review task
\* company.py 448-518: top of the cycle loop, stop conditions, planning task
cycle_top(S) ==
    LET S1 == [S EXCEPT !.goal.checks = @ + 1] IN
    IF S.goal.cycle >= cfg.max_cycles THEN finalize(S)
    ELSE IF stop_requested THEN finalize([S1 EXCEPT !.goal.final = "cancelled"])
    ELSE IF time_exceeded THEN finalize([S1 EXCEPT !.goal.final = "failed"])
    ELSE IF Cardinality(S.board) >= cfg.max_total_tasks
         THEN finalize([S1 EXCEPT !.goal.final = "failed"])
    ELSE IF cfg.max_cost_usd > 0 /\ S.tracker.total_cost_usd >= cfg.max_cost_usd
         THEN finalize([S1 EXCEPT !.goal.final = "failed"])
    ELSE LET id == Len(S.tasks) + 1 IN
         [S1 EXCEPT !.tasks = Append(@, Task_create(S.goal.ceo, 0, "plan")),
                    !.board = @ \cup {id},
                    !.goal.plan = id,
                    !.goal.wave = 0,
                    !.goal.emitted = @ \cup {"goal.cycle"},
                    !.goal.pc = "plan",
                    !.runners = @ @@ (Inline :> NewRunner(id))]

\* company.py 546-564: the review task
review(S) ==
    LET id == Len(S.tasks) + 1 IN
    [S EXCEPT !.tasks = Append(@, Task_create(S.goal.ceo, 0, "review")),
              !.board = @ \cup {id},
              !.goal.review = id,
              !.goal.pc = "review",
              !.runners = @ @@ (Inline :> NewRunner(id))]

\* company.py 526-529
pending_tasks(S) ==
    {t \in S.board : /\ ~is_terminal(S.tasks[t])
                     /\ S.tasks[t].assignee # NoAgent
                     /\ t # S.goal.plan}

\* company.py 539-542
tasks_to_run(S) == {t \in pending_tasks(S) : S.tasks[t].status # IN_PROGRESS}

RECURSIVE wave_top(_)

\* a variant of wave_top that allows one wave more than max_waves_per_cycle
wave_top_one_more(S) ==
    IF S.goal.wave > cfg.max_waves_per_cycle THEN review(S)
    ELSE IF stop_requested THEN review(S)
    ELSE IF pending_tasks(S) = {} THEN review(S)
    ELSE IF time_exceeded THEN review(S)
    ELSE IF tasks_to_run(S) # {}
         THEN [S EXCEPT !.goal.pc = "wave",
                        !.goal.gathered = tasks_to_run(S),
                        !.goal.errors = {},
                        !.runners = @ @@ [r \in {WaveRunner(t) : t \in tasks_to_run(S)}
                                            |-> NewRunner(r[2])]]
         ELSE wave_top([S EXCEPT !.goal.wave = @ + 1])

\* company.py 522-544: top of the wave loop
wave_top(S) ==
    IF S.goal.wave >= cfg.max_waves_per_cycle THEN review(S)
    ELSE IF stop_requested THEN review(S)
    ELSE IF pending_tasks(S) = {} THEN review(S)
    ELSE IF time_exceeded THEN review(S)
    ELSE IF tasks_to_run(S) # {}
         THEN [S EXCEPT !.goal.pc = "wave",
                        !.goal.gathered = tasks_to_run(S),
                        !.goal.errors = {},
                        !.runners = @ @@ [r \in {WaveRunner(t) : t \in tasks_to_run(S)}
                                            |-> NewRunner(r[2])]]
         ELSE wave_top([S EXCEPT !.goal.wave = @ + 1])

\* a variant of after_review whose last-cycle test is off by one
after_review_off_by_one(S) ==
    IF S.tasks[S.goal.review].status = DONE
    THEN finalize([S EXCEPT !.goal.final = "completed"])
    ELSE cycle_top([S EXCEPT !.goal.final =
                                 IF S.goal.cycle = cfg.max_cycles THEN "failed" ELSE @,
                             !.goal.cycle = @ + 1])

\* a variant of after_review that goes on to the next cycle after a DONE review
after_review_ignore_done(S) ==
    cycle_top([S EXCEPT !.goal.final =
                            IF S.goal.cycle = cfg.max_cycles - 1 THEN "failed" ELSE @,
                        !.goal.cycle = @ + 1])

\* company.py 566-577: decide whether to continue
after_review(S) ==
    IF S.tasks[S.goal.review].status = DONE
    THEN finalize([S EXCEPT !.goal.final = "completed"])
    ELSE cycle_top([S EXCEPT !.goal.final =
                                 IF S.goal.cycle = cfg.max_cycles - 1 THEN "failed" ELSE @,
                             !.goal.cycle = @ + 1])

-----------------------------------------------------------------------------
(* Company._run_task and Company._handle_delegation *)

\* the outermost _run_task of a runner returned
runner_done(S, r) ==
    LET S1 == [S EXCEPT !.runners = DropRunner(@, r)] IN
    IF r # Inline THEN S1
    ELSE IF S.goal.pc = "plan" THEN wave_top(S1)
    ELSE after_review(S1)

\* a variant of raise_in in which the gather of a wave lets the exception of
\* one task through to run_goal
raise_in_abort(S, r) ==
    [S EXCEPT !.runners = DropRunner(@, r),
              !.goal.pc = IF r[1] = "bg" THEN @ ELSE "raised"]

\* an exception leaves the outermost _run_task of runner r: it ends run_goal
\* when run_goal awaits the call itself (planning and review tasks), it is kept
\* in the result of the gather (return_exceptions=True, company.py 543) or in
\* the asyncio task made by assign (company.py 334) otherwise
raise_in(S, r) ==
    LET S1 == [S EXCEPT !.runners = DropRunner(@, r)] IN
    IF r = Inline THEN [S1 EXCEPT !.goal.pc = "raised"]
    ELSE IF r[1] = "wave" THEN [S1 EXCEPT !.goal.errors = @ \cup {r[2]}]
    ELSE S1

RECURSIVE post_loop(_, _)

\* a variant of return_from in which the caller's loop over its subtasks ends
\* with the first subtask that was run
return_from_first_only(S, r) ==
    LET run == S.runners[r]
        n == Len(run.stack)
    IN  IF n = 1 THEN runner_done(S, r)
        ELSE post_loop(
               [S EXCEPT !.runners[r] =
                   [ClearLocals(run) EXCEPT
                       !.stack = Append(SubSeq(run.stack, 1, n - 2),
                                        [run.stack[n - 1] EXCEPT
                                            !.i = NumSubs(S.tasks, run.stack[n - 1].t) + 1]),
                       !.pc = "post"]], r)

\* a _run_task call returns to its caller
return_from(S, r) ==
    LET run == S.runners[r]
        n == Len(run.stack)
    IN  IF n = 1 THEN runner_done(S, r)
        ELSE post_loop(
               [S EXCEPT !.runners[r] =
                   [ClearLocals(run) EXCEPT
                       !.stack = Append(SubSeq(run.stack, 1, n - 2),
                                        [run.stack[n - 1] EXCEPT !.i = @ + 1]),
                       !.pc = "post"]], r)

\* a variant of post_loop in which a failed resolution ends the loop
post_loop_abort(S, r) ==
    LET run == S.runners[r]
        n == Len(run.stack)
        f == run.stack[n]
    IN  IF f.i > NumSubs(S.tasks, f.t) THEN return_from(S, r)
        ELSE LET sub == NthSub(S.tasks, f.t, f.i)
                 agent == resolve_delegation(S.history, agents, sub)
             IN  IF is_terminal(S.tasks[sub])
                 THEN post_loop([S EXCEPT !.runners[r].stack[n].i = @ + 1], r)
                 ELSE IF agent = NoAgent
                 THEN return_from([S EXCEPT !.tasks[sub] = Task_fail(@, NO_AGENT_AVAILABLE)], r)
                 ELSE [S EXCEPT !.tasks[sub] = Task_assign(@, agent),
                                !.board = @ \cup {sub},
                                !.runners[r].stack = Append(@, [t |-> sub, i |-> 1]),
                                !.runners[r].pc = "begin"]

\* company.py 369-395: the loop over task.subtasks, with _handle_delegation
post_loop(S, r) ==
    LET run == S.runners[r]
        n == Len(run.stack)
        f == run.stack[n]
    IN  IF f.i > NumSubs(S.tasks, f.t) THEN return_from(S, r)
        ELSE LET sub == NthSub(S.tasks, f.t, f.i)
                 agent == resolve_delegation(S.history, agents, sub)
             IN  IF is_terminal(S.tasks[sub])
                 THEN post_loop([S EXCEPT !.runners[r].stack[n].i = @ + 1], r)
                 ELSE IF agent = NoAgent
                 THEN post_loop([S EXCEPT !.tasks[sub] = Task_fail(@, NO_AGENT_AVAILABLE),
                                          !.runners[r].stack[n].i = @ + 1], r)
                 ELSE [S EXCEPT !.tasks[sub] = Task_assign(@, agent),
                                !.board = @ \cup {sub},
                                !.runners[r].stack = Append(@, [t |-> sub, i |-> 1]),
                                !.runners[r].pc = "begin"]

\* company.py 346-355 and agent.py 126-169: _run_task up to the first completion call
run_task(S, r) ==
    LET run == S.runners[r]
        t == CurTask(run)
        a == S.tasks[t].assignee
    IN  IF ~IsLive(agents, a)
        THEN return_from([S EXCEPT !.tasks[t] = Task_fail(@, NO_AGENT_NAMED)], r)
        ELSE IF scn.llm[S.tasks[t].kind] = "none"
        THEN think_return([S EXCEPT !.tasks[t] = Task_fail(@, NO_PROVIDER)], r, "unconfigured")
        ELSE loop_top([S EXCEPT !.tasks[t] = Task_start(@),
                                !.rejections[a] = 0,
                                !.runners[r] = [ClearLocals(run) EXCEPT !.agent = a]], r)

-----------------------------------------------------------------------------
(* Actions *)

Cfg(cycles, iterations, total_tasks, seconds) ==
    [max_cycles |-> cycles,
     max_waves_per_cycle |-> 2,
     max_total_tasks |-> total_tasks,
     max_agent_iterations |-> iterations,
     max_time_seconds |-> seconds,
     max_cost_usd |-> 0]

TaskKinds == {"plan", "review", "user", "sub"}

Llm(worker) == [k \in TaskKinds |-> IF k = "user" THEN worker ELSE "plain"]

Roster == <<"Alex", "Bo">>

\* the CEO delegates, the owner hires or fires
Delegating ==
    [user_tasks |-> 0, assignees |-> {}, delegations |-> MaxDelegations,
     staff_ops |-> MaxStaffOps, ticks |-> 0, stops |-> FALSE, llm |-> Llm("plain"), usage |-> NoUsage]

\* the owner assigns a task and may stop the goal loop while it runs
Owner ==
    [user_tasks |-> MaxUserTasks, assignees |-> {"Bo", Ghost, NoAgent}, delegations |-> 0,
     staff_ops |-> 0, ticks |-> MaxElapsed, stops |-> TRUE, llm |-> Llm("plain"), usage |-> NoUsage]

\* one worker task with an unrestricted LLM
Worker ==
    [user_tasks |-> MaxUserTasks, assignees |-> {"Bo"}, delegations |-> 1,
     staff_ops |-> 0, ticks |-> 0, stops |-> FALSE, llm |-> Llm("full"), usage |-> NoUsage]

\* two tasks of the same agent at once
SameAgent ==
    [user_tasks |-> MaxUserTasks + 1, assignees |-> {"Bo"}, delegations |-> 0,
     staff_ops |-> 0, ticks |-> 0, stops |-> FALSE, llm |-> Llm("terse"), usage |-> NoUsage]

\* a planning task that delegates in each of its turns
BigPlan ==
    [user_tasks |-> 0, assignees |-> {}, delegations |-> BigPlanTurns,
     staff_ops |-> 0, ticks |-> 0, stops |-> FALSE,
     llm |-> [k \in TaskKinds |-> IF k = "plan" THEN "delegator" ELSE "obedient"],
     usage |-> NoUsage]

\* the CEO delegates to two different agents, each of which answers at once
Team ==
    [user_tasks |-> 0, assignees |-> {}, delegations |-> MaxDelegations,
     staff_ops |-> 0, ticks |-> 0, stops |-> FALSE,
     llm |-> [k \in TaskKinds |-> IF k = "plan" THEN "planner" ELSE "obedient"],
     usage |-> NoUsage]

\* the owner assigns a task to an agent that answers with content at once
Poet ==
    [user_tasks |-> MaxUserTasks, assignees |-> {"Alex", "Bo"}, delegations |-> 0,
     staff_ops |-> 0, ticks |-> 0, stops |-> FALSE, llm |-> Llm("obedient"),
     usage |-> NoUsage]

\* the usage every completion reports in the scenario with a cost cap, and a
\* cap of the cost of one completion (in units of 1e-8 USD)
CallUsage == [model |-> GPT_4O, input_tokens |-> 1000, output_tokens |-> 1000]

CostCap == estimate_cost(DEFAULT_PRICING, GPT_4O, 1000, 1000)

\* a goal loop limited by max_total_tasks and max_cost_usd
Capped ==
    [user_tasks |-> 0, assignees |-> {}, delegations |-> 0,
     staff_ops |-> 0, ticks |-> 0, stops |-> FALSE, llm |-> Llm("plain"),
     usage |-> CallUsage]

\* two tasks of the owner in one wave, with a database or an event handler
\* that may raise
Flaky ==
    [user_tasks |-> MaxUserTasks + 1, assignees |-> {"Bo"}, delegations |-> 0,
     staff_ops |-> 0, ticks |-> 0, stops |-> FALSE, llm |-> Llm("obedient"),
     usage |-> NoUsage]

\* the owner assigns a task to an agent hired without an API key: its
\* provider is None (company.py 205-211)
Unconfigured ==
    [user_tasks |-> MaxUserTasks, assignees |-> {"Bo"}, delegations |-> 0,
     staff_ops |-> 0, ticks |-> 0, stops |-> FALSE, llm |-> Llm("none"),
     usage |-> NoUsage]

\* the owner assigns a task, while the goal loop runs, to an agent whose LLM
\* answers with report_result calls only
Reporter ==
    [user_tasks |-> MaxUserTasks, assignees |-> {"Bo"}, delegations |-> 0,
     staff_ops |-> 0, ticks |-> 0, stops |-> FALSE, llm |-> Llm("terse"),
     usage |-> NoUsage]

\* the owner fires an agent, asks the goal loop to stop and posts a second
\* goal while the first is under way (server.py 131-145)
Restart ==
    [user_tasks |-> 0, assignees |-> {}, delegations |-> 0,
     staff_ops |-> MaxStaffOps, ticks |-> 0, stops |-> TRUE, llm |-> Llm("plain"),
     usage |-> NoUsage]

Scenarios ==
    {[cfg |-> Cfg(cy, 1, 50, 0), scn |-> Delegating] : cy \in 0..2}
    \cup {[cfg |-> Cfg(cy, 1, 50, 1), scn |-> Owner] : cy \in 1..2}
    \cup {[cfg |-> Cfg(0, it, 50, 0), scn |-> Worker] : it \in 1..3}
    \cup {[cfg |-> Cfg(0, 2, 50, 0), scn |-> SameAgent]}
    \cup {[cfg |-> Cfg(1, BigPlanTurns, 50, 0), scn |-> BigPlan]}
    \cup {[cfg |-> Cfg(1, it, 50, 0), scn |-> Team] : it \in 2..3}
    \cup {[cfg |-> Cfg(1, 1, 50, 0), scn |-> Poet]}
    \cup {[cfg |-> [Cfg(3, 1, tt, 0) EXCEPT !.max_cost_usd = cap], scn |-> Capped] :
             tt \in {0, 1, 2, 50}, cap \in {0, CostCap, 2 * CostCap}}

\* the state after Company.__init__ and load, in one of the scenarios xs
InitFrom(xs) ==
    /\ \E x \in xs : cfg = x.cfg /\ scn = x.scn
    /\ agents = Roster
    /\ tasks = <<>>
    /\ board = {}
    /\ history = <<>>
    /\ rejections = [n \in AgentNames |-> 0]
    /\ runners = <<>>
    /\ goal = NotStarted
    /\ running = FALSE
    /\ stop_requested = FALSE
    /\ elapsed = 0
    /\ spawning = {}
    /\ staff_ops = 0
    /\ stop_at = "never"
    /\ inboxes = [a \in {agents[k] : k \in 1..Len(agents)} |-> <<>>]
    /\ publishing = {}
    /\ tracker = NewTracker

Init == InitFrom(Scenarios)

Apply(S) ==
    /\ tasks' = S.tasks
    /\ board' = S.board
    /\ history' = S.history
    /\ rejections' = S.rejections
    /\ runners' = S.runners
    /\ goal' = S.goal
    /\ inboxes' = S.inboxes
    /\ tracker' = S.tracker

Env == <<cfg, agents, running, stop_requested, elapsed, spawning, staff_ops, scn, stop_at,
         publishing>>

\* Company.run_goal is called: company.py 416-423
StartGoal ==
    /\ goal.pc = "idle"
    /\ running' = TRUE
    /\ stop_requested' = FALSE
    /\ elapsed' = 0
    /\ goal' = [goal EXCEPT !.pc = "persist"]
    /\ UNCHANGED <<cfg, agents, tasks, board, history, rejections, runners,
                   spawning, staff_ops, scn, stop_at, inboxes, publishing, tracker>>

\* company.py 428-446, then the first cycle
GoalBegin ==
    /\ goal.pc = "persist"
    /\ LET ceo == get_agent_by_role(agents, "ceo") IN
       IF ceo = NoAgent
       THEN Apply([State EXCEPT !.goal.db = "active", !.goal.pc = "raised"])
       ELSE Apply(cycle_top([State EXCEPT !.goal.db = "active",
                                          !.goal.emitted = @ \cup {"goal.started"},
                                          !.goal.ceo = ceo, !.goal.final = "completed",
                                          !.goal.cycle = 0]))
    /\ UNCHANGED Env

\* the gather of the wave is complete: next wave
WaveDone ==
    /\ goal.pc = "wave"
    /\ ~\E r \in DOMAIN runners : r[1] = "wave"
    /\ Apply(wave_top([State EXCEPT !.goal.wave = @ + 1]))
    /\ UNCHANGED Env

\* company.py 585-595
Finalize ==
    /\ goal.pc = "finalize"
    /\ running' = FALSE
    /\ goal' = [goal EXCEPT !.pc = "done", !.db = goal.final,
                            !.emitted = @ \cup {"goal.completed"}]
    /\ UNCHANGED <<cfg, agents, tasks, board, history, rejections, runners,
                   stop_requested, elapsed, spawning, staff_ops, scn, stop_at,
                   inboxes, publishing, tracker>>

\* Company.request_stop
RequestStop ==
    /\ scn.stops
    /\ ~stop_requested
    /\ stop_requested' = TRUE
    /\ stop_at' = goal.pc
    /\ UNCHANGED <<cfg, agents, tasks, board, history, rejections, runners, goal,
                   running, elapsed, spawning, staff_ops, scn, inboxes, publishing,
                   tracker>>

\* wall-clock time passes while run_goal runs
Tick ==
    /\ goal.pc \notin {"idle", "done", "raised"}
    /\ elapsed < scn.ticks
    /\ elapsed' = elapsed + 1
    /\ UNCHANGED <<cfg, agents, tasks, board, history, rejections, runners, goal,
                   running, stop_requested, spawning, staff_ops, scn, stop_at,
                   inboxes, publishing, tracker>>

\* Company.assign, company.py 320-324: create the task and add it to the board
Assign(assignee) ==
    /\ NumUserTasks(tasks) < scn.user_tasks
    /\ assignee \in scn.assignees
    /\ tasks' = Append(tasks, Task_create(assignee, 0, "user"))
    /\ board' = board \cup {Len(tasks) + 1}
    /\ spawning' = spawning \cup {Len(tasks) + 1}
    /\ UNCHANGED <<cfg, agents, history, rejections, runners, goal, running,
                   stop_requested, elapsed, staff_ops, scn, stop_at, inboxes,
                   publishing, tracker>>

\* Company.assign, company.py 330-336: start processing if the assignee is hired
AssignSpawn(t) ==
    /\ t \in spawning
    /\ spawning' = spawning \ {t}
    /\ runners' = IF IsLive(agents, tasks[t].assignee)
                  THEN runners @@ (BgRunner(t) :> NewRunner(t))
                  ELSE runners
    /\ UNCHANGED <<cfg, agents, tasks, board, history, rejections, goal, running,
                   stop_requested, elapsed, staff_ops, scn, stop_at, inboxes,
                   publishing, tracker>>

\* Company.get_agent
get_agent(ags, name) == IF IsLive(ags, name) THEN name ELSE NoAgent

\* Company.list_agents
list_agents(ags) == [k \in 1..Len(ags) |-> [name |-> ags[k], role |-> RoleOf[ags[k]]]]

\* company.py 229: self.agents[name] = agent
hire(ags, n) == Append(ags, n)

\* company.py 238: del self.agents[agent_name]
fire(ags, n) == SelectSeq(ags, LAMBDA x : x # n)

\* Company.hire; the Agent constructor registers the inbox (agent.py 61)
Hire(n) ==
    /\ staff_ops < scn.staff_ops
    /\ ~IsLive(agents, n)
    /\ inboxes' = register_agent(inboxes, n)
    /\ agents' = hire(agents, n)
    /\ staff_ops' = staff_ops + 1
    /\ UNCHANGED <<cfg, tasks, board, history, rejections, runners, goal, running,
                   stop_requested, elapsed, spawning, scn, stop_at, publishing, tracker>>

\* Company.fire; Agent.shutdown unregisters the inbox (agent.py 435)
Fire(n) ==
    /\ staff_ops < scn.staff_ops
    /\ IsLive(agents, n)
    /\ inboxes' = unregister_agent(inboxes, n)
    /\ agents' = fire(agents, n)
    /\ staff_ops' = staff_ops + 1
    /\ UNCHANGED <<cfg, tasks, board, history, rejections, runners, goal, running,
                   stop_requested, elapsed, spawning, scn, stop_at, publishing, tracker>>

\* a _run_task coroutine enters (or re-enters for a subtask) _run_task
RunTask(r) ==
    /\ r \in DOMAIN runners
    /\ runners[r].pc = "begin"
    /\ Apply(run_task(State, r))
    /\ UNCHANGED Env

\* provider.complete returns resp
Complete(r, resp) ==
    /\ r \in DOMAIN runners
    /\ runners[r].pc = "llm"
    /\ resp \in ResponsesFor(tasks[CurTask(runners[r])].kind)
    /\ NumDelegated(tasks) + NumDelegates(resp.calls) <= scn.delegations
    /\ Apply(llm_respond(State, r, resp))
    /\ UNCHANGED Env

\* a suspended tool call continues
ToolResume(r) ==
    /\ r \in DOMAIN runners
    /\ runners[r].pc \in {"report2", "resume"}
    /\ Apply(tool_resume(State, r))
    /\ UNCHANGED Env

\* _run_task continues after think: UPDATE, then the delegated subtasks
PostThink(r) ==
    /\ r \in DOMAIN runners
    /\ runners[r].pc = "post"
    /\ Apply(post_loop(State, r))
    /\ UNCHANGED Env

Next ==
    \/ StartGoal
    \/ GoalBegin
    \/ WaveDone
    \/ Finalize
    \/ RequestStop
    \/ Tick
    \/ \E a \in AgentNames \cup {NoAgent, Ghost} : Assign(a)
    \/ \E t \in spawning : AssignSpawn(t)
    \/ \E n \in AgentNames : Hire(n)
    \/ \E n \in AgentNames : Fire(n)
    \/ \E r \in DOMAIN runners : RunTask(r)
    \/ \E r \in DOMAIN runners : \E resp \in Responses \cup PlannerResponses : Complete(r, resp)
    \/ \E r \in DOMAIN runners : ToolResume(r)
    \/ \E r \in DOMAIN runners : PostThink(r)

Spec == Init /\ [][Next]_vars

\* the steps the event loop takes by itself: every coroutine that is ready to
\* run is eventually run, and every awaited collaborator eventually answers
Scheduled ==
    \/ GoalBegin
    \/ WaveDone
    \/ Finalize
    \/ \E t \in spawning : AssignSpawn(t)
    \/ \E r \in DOMAIN runners : RunTask(r)
    \/ \E r \in DOMAIN runners : \E resp \in Responses \cup PlannerResponses : Complete(r, resp)
    \/ \E r \in DOMAIN runners : ToolResume(r)
    \/ \E r \in DOMAIN runners : PostThink(r)

\* the runs of run_goal that are limited to one cycle
InitOneCycle == Init /\ cfg.max_cycles = 1 /\ scn # BigPlan

SpecOneCycle == InitOneCycle /\ [][Next]_vars

\* the runs of one cycle and the runs limited by a task or cost cap
InitShort == Init /\ (cfg.max_cycles = 1 \/ scn = Capped) /\ scn # BigPlan

SpecShort == InitShort /\ [][Next]_vars

FairSpec == InitOneCycle /\ [][Next]_vars /\ WF_vars(Scheduled)

\* the runs that exercise Agent.think: a worker with an unrestricted LLM and
\* one or two iterations, an agent without a provider, and one cycle of the
\* goal loop with hiring, firing, the clock, a stop request, or a task assigned
\* to a reporting agent
InitThink ==
    InitFrom({x \in Scenarios :
                 \/ x.scn = Worker /\ x.cfg.max_agent_iterations <= 2
                 \/ x.scn \in {Delegating, Owner} /\ x.cfg.max_cycles = 1}
             \cup {[cfg |-> Cfg(0, 1, 50, 0), scn |-> Unconfigured],
                   [cfg |-> Cfg(1, 1, 50, 0), scn |-> Reporter]})

SpecThink == InitThink /\ [][Next]_vars

-----------------------------------------------------------------------------
(* The company with a database or event handler that may raise: the awaits *)
(* of _run_task before think (company.py 352) and after it (358-367).      *)

\* an await of a _run_task call gathered by a wave raises
Raise(r) ==
    /\ scn = Flaky
    /\ r \in DOMAIN runners
    /\ r[1] = "wave"
    /\ Cardinality(goal.errors) < MaxFaults
    /\ \/ runners[r].pc = "post"
       \/ runners[r].pc = "begin" /\ IsLive(agents, tasks[CurTask(runners[r])].assignee)
    /\ Apply(raise_in(State, r))
    /\ UNCHANGED Env

InitFlaky ==
    InitFrom({x \in Scenarios : x.cfg.max_cycles = 1 /\ x.scn # BigPlan}
             \cup {[cfg |-> Cfg(1, 1, 50, 0), scn |-> Flaky]})

NextFlaky ==
    \/ Next
    \/ \E r \in DOMAIN runners : Raise(r)

SpecFlaky == InitFlaky /\ [][NextFlaky]_vars

\* the runs of one cycle, the runs of up to three cycles limited by a task or
\* cost cap, and the one-cycle runs in which a gathered _run_task may raise
InitCycles ==
    InitFrom({x \in Scenarios : (x.cfg.max_cycles = 1 \/ x.scn = Capped) /\ x.scn # BigPlan}
             \cup {[cfg |-> Cfg(1, 1, 50, 0), scn |-> Flaky]})

SpecCycles == InitCycles /\ [][NextFlaky]_vars

-----------------------------------------------------------------------------
(* A second run_goal call while the first is under way: api_run_goal starts *)
(* run_goal with asyncio.create_task whatever _running is.  The second call *)
(* is followed in the runs in which no CEO is hired when it is made, where  *)
(* it ends with the ValueError of company.py 431.                           *)

\* company.py 416-423: the second call up to its INSERT INTO goals
StartGoalAgain ==
    /\ scn = Restart
    /\ goal.pc \in {"plan", "wave", "review"}
    /\ goal.again = "idle"
    /\ get_agent_by_role(agents, "ceo") = NoAgent
    /\ running' = TRUE
    /\ stop_requested' = FALSE
    /\ goal' = [goal EXCEPT !.again = "persist"]
    /\ UNCHANGED <<cfg, agents, tasks, board, history, rejections, runners, elapsed,
                   spawning, staff_ops, scn, stop_at, inboxes, publishing, tracker>>

\* company.py 428-433: the second call finds no CEO and raises
GoalBeginAgain ==
    /\ goal.again = "persist"
    /\ get_agent_by_role(agents, "ceo") = NoAgent
    /\ goal' = [goal EXCEPT !.again = "raised"]
    /\ UNCHANGED <<cfg, agents, tasks, board, history, rejections, runners, running,
                   stop_requested, elapsed, spawning, staff_ops, scn, stop_at,
                   inboxes, publishing, tracker>>

InitRestart ==
    InitFrom({x \in Scenarios : x.cfg.max_cycles = 1 /\ x.scn # BigPlan}
             \cup {[cfg |-> Cfg(2, 1, 50, 0), scn |-> Restart]})

NextRestart ==
    \/ Next
    \/ StartGoalAgain
    \/ GoalBeginAgain

SpecRestart == InitRestart /\ [][NextRestart]_vars

-----------------------------------------------------------------------------
(* Delegation resolution over a history in which several task.delegate
   messages name the same subtask.  MessageBus.publish accepts any message, so
   a second message for a subtask can be published at any time. *)

Quiet ==
    [user_tasks |-> 0, assignees |-> {}, delegations |-> 0,
     staff_ops |-> MaxBusStaffOps, ticks |-> 0, stops |-> FALSE, llm |-> Llm("plain"),
     usage |-> NoUsage]

\* Alex finished task 1 after delegating subtask 2; _run_task is about to
\* resolve the subtask
InitBus ==
    /\ cfg = Cfg(0, 1, 50, 0)
    /\ scn = Quiet
    /\ agents = Roster
    /\ tasks = <<Task_complete(Task_start(Task_create("Alex", 0, "user")), A_LONG),
                 Task_create(NoAgent, 1, "sub")>>
    /\ board = {1}
    /\ \E role \in Roles : history = <<DelegateMsg("Alex", role, 2)>>
    /\ rejections = [n \in AgentNames |-> 0]
    /\ runners = (BgRunner(1) :> [NewRunner(1) EXCEPT !.pc = "post", !.agent = "Alex",
                                                      !.iter = 1, !.best = A_LONG,
                                                      !.seen = {A_LONG}, !.ret = "content"])
    /\ goal = NotStarted
    /\ running = FALSE
    /\ stop_requested = FALSE
    /\ elapsed = 0
    /\ spawning = {}
    /\ staff_ops = 0
    /\ stop_at = "never"
    /\ inboxes = [a \in {agents[k] : k \in 1..Len(agents)} |-> <<>>]
    /\ publishing = {}
    /\ tracker = NewTracker

\* MessageBus.publish, lines 53-62: the message enters the history, then the
\* call is suspended in the global listener (Company._on_bus_message)
BusPublish(msg) ==
    /\ Len(history) < MaxBusMsgs
    /\ msg \notin publishing
    /\ history' = Append(history, msg)
    /\ publishing' = publishing \cup {msg}
    /\ UNCHANGED <<cfg, agents, tasks, board, rejections, runners, goal, running,
                   stop_requested, elapsed, spawning, staff_ops, scn, stop_at,
                   inboxes, tracker>>

\* MessageBus.publish, lines 64-72: the deliveries to the inboxes
BusDeliver(msg) ==
    /\ msg \in publishing
    /\ inboxes' = deliver(inboxes, msg)
    /\ publishing' = publishing \ {msg}
    /\ UNCHANGED <<cfg, agents, tasks, board, history, rejections, runners, goal,
                   running, stop_requested, elapsed, spawning, staff_ops, scn, stop_at,
                   tracker>>

\* the messages the owner and the agents send in this scenario
BusMessages ==
    {DelegateMsg("Alex", role, 2) : role \in Roles}
    \cup {BusMessage(from, to, "general", "", 0) :
             from \in {NoAgent, "Bo"}, to \in {NoAgent, "Bo", "Cy"}}

NextBus ==
    \/ \E msg \in BusMessages : BusPublish(msg)
    \/ \E msg \in publishing : BusDeliver(msg)
    \/ \E n \in AgentNames : Hire(n)
    \/ \E n \in AgentNames : Fire(n)
    \/ \E r \in DOMAIN runners : PostThink(r)

SpecBus == InitBus /\ [][NextBus]_vars

-----------------------------------------------------------------------------
(* The cost tracker by itself: any sequence of CostTracker.record calls *)

\* a dated release of gpt-4o-mini, and a model with no pricing entry
GPT_4O_MINI_DATED == GPT_4O_MINI \o <<"2024", "07", "18">>
UNKNOWN_MODEL == <<"mistral", "large">>

CostModels == {GPT_4O, GPT_4O_MINI, GPT_4O_MINI_DATED, CLAUDE_OPUS, UNKNOWN_MODEL}

TokenCounts == {0, 1, 1000}

InitCost ==
    /\ cfg = Cfg(0, 1, 50, 0)
    /\ scn = Quiet
    /\ agents = Roster
    /\ tasks = <<>>
    /\ board = {}
    /\ history = <<>>
    /\ rejections = [n \in AgentNames |-> 0]
    /\ runners = <<>>
    /\ goal = NotStarted
    /\ running = FALSE
    /\ stop_requested = FALSE
    /\ elapsed = 0
    /\ spawning = {}
    /\ staff_ops = 0
    /\ stop_at = "never"
    /\ inboxes = [a \in {agents[k] : k \in 1..Len(agents)} |-> <<>>]
    /\ publishing = {}
    /\ tracker = NewTracker

\* CostTracker.record(agent, model, input_tokens, output_tokens)
Record(agent, model, input_tokens, output_tokens) ==
    /\ Len(tracker.records) < MaxRecords
    /\ tracker' = record(tracker, agent, model, input_tokens, output_tokens)
    /\ UNCHANGED <<cfg, agents, tasks, board, history, rejections, runners, goal,
                   running, stop_requested, elapsed, spawning, staff_ops, scn, stop_at,
                   inboxes, publishing>>

NextCost ==
    \E a \in {"Alex", "Bo"}, m \in CostModels, i, o \in TokenCounts : Record(a, m, i, o)

SpecCost == InitCost /\ [][NextCost]_vars

-----------------------------------------------------------------------------
(* Properties *)

TaskIds == 1..Len(tasks)

NumKind(k) == Cardinality({t \in TaskIds : tasks[t].kind = k})

NoReviewDone == \A t \in TaskIds : tasks[t].kind = "review" => tasks[t].status # DONE

\* the role a subtask was delegated to: the to_role of its task.delegate message
RoleDelegated(h, s) ==
    LET ks == {k \in 1..Len(h) : h[k].topic = TOPIC_DELEGATE /\ h[k].task_id = s}
    IN  IF ks = {} THEN "" ELSE h[CHOOSE k \in ks : TRUE].to_role

\* C1: a request_stop() made while a wave is executing makes run_goal end with
\* final status "cancelled".
C1_StopInWaveCancels ==
    (goal.pc = "done" /\ stop_at = "wave") => goal.final = "cancelled"

C2_OneCycleInv ==
    cfg.max_cycles = 1 =>
        /\ NumKind("plan") <= 1
        /\ NumKind("review") <= 1
        /\ (goal.pc = "done" /\ NoReviewDone) =>
              \/ goal.final = "failed" /\ NumKind("plan") = 1 /\ NumKind("review") = 1
              \/ /\ NumKind("plan") = 0
                 /\ NumKind("review") = 0
                 /\ \/ goal.final = "cancelled" /\ stop_requested
                    \/ /\ goal.final = "failed"
                       /\ time_exceeded \/ Cardinality(board) >= cfg.max_total_tasks

C3_TerminalForever ==
    [][\A t \in TaskIds : is_terminal(tasks[t]) => is_terminal(tasks'[t])]_vars

\* C4: the result of a terminal task never changes.
C4_ResultImmutable ==
    [][\A t \in TaskIds : is_terminal(tasks[t]) => tasks'[t].result = tasks[t].result]_vars

\* C5: within one think run, while the longest assistant text is shorter than
\* 300 characters, a report_result(done) with a result shorter than 300
\* characters is accepted only after exactly two rejections, and no more
\* than two such calls are rejected.
C5_TwoRejectionsThenAccepted ==
    \A r \in DOMAIN runners :
        LET run == runners[r] IN
        /\ (run.pc \in {"llm", "report2", "resume"} /\ run.best.len < MIN_DELIVERABLE_LEN)
              => run.rejected <= 2
        /\ (/\ run.pc = "report2"
            /\ Head(run.calls).result.len < MIN_DELIVERABLE_LEN
            /\ run.best.len < MIN_DELIVERABLE_LEN)
              => run.rejected = 2

\* the number of rejected report_result calls of task t
RejectedCalls(t) ==
    LET rs == {r \in DOMAIN runners : runners[r].pc \in {"llm", "report2", "resume"}
                                      /\ CurTask(runners[r]) = t}
    IN  IF rs = {} THEN 0 ELSE runners[CHOOSE r \in rs : TRUE].rejected

\* C6: rejections are counted per task: no task has more than 2 rejected
\* report_result calls, and a short result is accepted for a task only after two
\* of its calls were rejected.
C6_RejectionsPerTask ==
    \A r \in DOMAIN runners :
        LET run == runners[r]
            t == CurTask(run)
        IN  run.pc \in {"llm", "report2", "resume"} =>
               /\ RejectedCalls(t) <= MAX_REJECTIONS
               /\ (/\ run.pc = "report2"
                   /\ substitute(Head(run.calls).result, run.best).slen < MIN_DELIVERABLE_LEN)
                     => RejectedCalls(t) = MAX_REJECTIONS

\* think of runner r returns in this step
ThinkReturns(r) ==
    /\ r \in DOMAIN runners
    /\ r \in DOMAIN runners'
    /\ runners[r].pc # "post"
    /\ runners'[r].pc = "post"

LatestRole(h, s) ==
    LET ks == {k \in 1..Len(h) : h[k].topic = TOPIC_DELEGATE /\ h[k].task_id = s}
    IN  IF ks = {} THEN "" ELSE h[CHOOSE k \in ks : \A k2 \in ks : k2 <= k].to_role

\* C8: when several task.delegate messages name subtask X, X is resolved with
\* the role of the most recently published one: it is assigned to the first
\* agent of that role, or fails when that role has no agent.
C8_LatestMessageWins ==
    [][\A s \in TaskIds :
         (tasks[s].status = PENDING /\ tasks'[s] # tasks[s]) =>
            LET a == get_agent_by_role(agents, LatestRole(history, s)) IN
            IF a # NoAgent
            THEN tasks'[s].assignee = a
            ELSE tasks'[s].status = FAILED]_vars

\* C9: a delegated subtask whose role has a live agent when it is resolved is
\* assigned to the first such agent; it fails only when the role has no agent.
C9_ResolvedWheneverStaffed ==
    [][\A s \in TaskIds :
         (tasks[s].status = PENDING /\ tasks'[s] # tasks[s]) =>
            LET a == get_agent_by_role(agents, RoleDelegated(history, s)) IN
            IF a # NoAgent
            THEN tasks'[s].status = ASSIGNED /\ tasks'[s].assignee = a
            ELSE tasks'[s].status = FAILED /\ tasks'[s].result = NO_AGENT_AVAILABLE]_vars

\* a frame of some runner will still handle the subtasks of task p
HasFrame(rs, p) ==
    \E r \in DOMAIN rs : \E d \in 1..Len(rs[r].stack) : rs[r].stack[d].t = p

\* C10: a subtask delegated to a role without a live agent becomes FAILED with
\* "No agent available for delegation."; run_goal is not left, and every
\* subtask of the same parent that is still unresolved is still going to be
\* handled by the loop over the parent's subtasks.
C10_UnstaffedRoleFailsSubtaskOnly ==
    [][\A s \in TaskIds :
         (/\ tasks[s].status = PENDING
          /\ tasks'[s] # tasks[s]
          /\ get_agent_by_role(agents, RoleDelegated(history, s)) = NoAgent) =>
            /\ tasks'[s].status = FAILED
            /\ tasks'[s].result = NO_AGENT_AVAILABLE
            /\ goal'.pc # "raised"
            /\ \A s2 \in TaskIds :
                 (tasks'[s2].parent_id = tasks[s].parent_id /\ tasks'[s2].status = PENDING)
                    => HasFrame(runners', tasks[s].parent_id)]_vars

\* C10 witness: the planning task delegated to "ops" and then to "dev"; the first
\* subtask failed for want of an agent, the second is DONE, the review is reached
C10_Witness ==
    /\ goal.pc = "review"
    /\ \E s1, s2 \in TaskIds :
         /\ s1 < s2
         /\ tasks[s1].parent_id = goal.plan
         /\ tasks[s2].parent_id = goal.plan
         /\ tasks[s1].status = FAILED
         /\ tasks[s1].result = NO_AGENT_AVAILABLE
         /\ tasks[s2].status = DONE

RECURSIVE SumValues(_)
\* the sum of the values of a function
SumValues(f) ==
    IF DOMAIN f = {} THEN 0
    ELSE LET x == CHOOSE y \in DOMAIN f : TRUE
         IN  f[x] + SumValues([y \in (DOMAIN f) \ {x} |-> f[y]])

RECURSIVE SumEstimates(_, _)
\* the sum of estimate_cost over the first n recorded calls, in units of 1e-8 USD
SumEstimates(recs, n) ==
    IF n = 0 THEN 0
    ELSE SumEstimates(recs, n - 1)
         + estimate_cost(DEFAULT_PRICING, recs[n].model, recs[n].input_tokens,
                         recs[n].output_tokens)

\* C12: after any sequence of record calls the summary's total_cost_usd is the
\* sum of estimate_cost over the recorded calls, its by_agent values and its
\* by_model values each sum to that total, and api_calls is the number of calls.
\* (summary amounts are in units of 1e-6 USD, estimates in units of 1e-8 USD)
C12_SummaryReconciles ==
    LET s == summary(tracker) IN
    /\ s.total_cost_usd * 100 = SumEstimates(tracker.records, Len(tracker.records))
    /\ SumValues(s.by_agent) = s.total_cost_usd
    /\ SumValues(s.by_model) = s.total_cost_usd
    /\ s.api_calls = Len(tracker.records)

\* the entry of the model's name, else the entry with the longest name among
\* the entries whose name is a prefix of the model's, 0 if there is none
longest_prefix_entry(pricing, model) ==
    LET exact == {k \in 1..Len(pricing) : pricing[k].model = model}
        pre == {k \in 1..Len(pricing) : startswith(model, pricing[k].model)}
    IN  IF exact # {} THEN CHOOSE k \in exact : TRUE
        ELSE IF pre # {}
        THEN CHOOSE k \in pre : \A k2 \in pre : Len(pricing[k2].model) <= Len(pricing[k].model)
        ELSE 0

\* C13: every recorded call is priced by the entry named like its model, else
\* by the entry with the longest name that is a prefix of the model's name, and
\* costs 0 when no entry matches.
C13_LongestPrefixPricing ==
    \A n \in 1..Len(tracker.records) :
        LET rec == tracker.records[n]
            k == longest_prefix_entry(DEFAULT_PRICING, rec.model)
        IN  rec.cost_usd = IF k = 0 THEN 0
                           ELSE rec.input_tokens * DEFAULT_PRICING[k].input
                                + rec.output_tokens * DEFAULT_PRICING[k].output

\* task t was assigned to a hired agent whose completions return content at once
AssignedToPoet(t) ==
    IF t \in TaskIds
    THEN /\ tasks[t].kind = "user"
         /\ IsLive(agents, tasks[t].assignee)
         /\ scn.llm["user"] = "obedient"
         /\ scn.staff_ops = 0
         /\ cfg.max_agent_iterations > 0
    ELSE FALSE

DoneWith(t, content) ==
    IF t \in TaskIds THEN tasks[t].status = DONE /\ tasks[t].result = content ELSE FALSE

\* C14: a think whose first completion returns content and no tool calls ends
\* with the task DONE and that content as its result; and a task assigned to a
\* hired agent whose completions return content at once eventually is DONE
\* with that content as its result (eventually all such tasks are).
C14_AssignedTaskDone ==
    /\ [][\A r \in DOMAIN runners :
             (/\ runners[r].pc = "llm"
              /\ runners[r].iter = 0
              /\ tasks[CurTask(runners[r])].kind = "user"
              /\ r \in DOMAIN runners'
              /\ runners'[r].pc = "post"
              /\ runners'[r].ret = "content"
              /\ \E c \in runners'[r].seen : c.len > 0) =>
                 /\ tasks'[CurTask(runners[r])].status = DONE
                 /\ runners'[r].seen = {tasks'[CurTask(runners[r])].result}]_vars
    /\ (\E t \in TaskIds : AssignedToPoet(t))
          ~> (\A t \in TaskIds : AssignedToPoet(t) => DoneWith(t, A_LONG))

\* C14 witness: a task assigned to Bo is DONE with the content of Bo's completion
\* while run_goal has not finished
C14_Witness ==
    /\ scn.llm["user"] = "obedient"
    /\ goal.pc \notin {"idle", "done"}
    /\ \E t \in TaskIds :
         /\ tasks[t].kind = "user"
         /\ tasks[t].assignee = "Bo"
         /\ tasks[t].status = DONE
         /\ tasks[t].result = A_LONG

\* C15: after fire(name) of a hired agent list_agents() has no entry for name,
\* get_agent(name) returns no agent and name has no inbox on the bus; and a
\* fire(name) right after hire(name) gives back the roster (and the registered
\* inboxes) there were before the hire.
C15_FireUndoesHire ==
    [][\A n \in AgentNames :
         /\ (IsLive(agents, n) /\ agents' = fire(agents, n)) =>
                /\ \A k \in 1..Len(agents') : list_agents(agents')[k].name # n
                /\ get_agent(agents', n) = NoAgent
                /\ n \notin DOMAIN inboxes'
         /\ (~IsLive(agents, n) /\ get_agent(agents', n) = n) =>
                /\ list_agents(fire(agents', n)) = list_agents(agents)
                /\ DOMAIN unregister_agent(inboxes', n) = DOMAIN inboxes]_vars

\* C15 witness: Bo, hired at the start, was fired
C15_Witness ==
    /\ staff_ops = 1
    /\ list_agents(agents) = <<[name |-> "Alex", role |-> "ceo"]>>
    /\ DOMAIN inboxes = {"Alex"}

\* the messages of a sequence
Range(q) == {q[k] : k \in 1..Len(q)}

\* C20: publish appends the message to the history; when it delivers, a
\* message addressed to agent a is appended to a's inbox and to no other, and
\* to none when a is not registered; a message with no addressee is appended
\* to the inbox of every registered agent but the sender's.
C20_PublishDelivers ==
    [][/\ \A msg \in publishing' \ publishing :
            history' = Append(history, msg)
       /\ \A msg \in publishing \ publishing' :
            /\ msg \in Range(history)
            /\ DOMAIN inboxes' = DOMAIN inboxes
            /\ \A a \in DOMAIN inboxes :
                 inboxes'[a] =
                    IF msg.to_agent = NoAgent
                    THEN IF a = msg.from_agent THEN inboxes[a]
                         ELSE Append(inboxes[a], msg)
                    ELSE IF a = msg.to_agent THEN Append(inboxes[a], msg)
                         ELSE inboxes[a]]_vars

\* C20 witness: Bo's broadcast is in Alex's inbox and not in Bo's, and a
\* message to Cy, who is not registered, was published and delivered nowhere
C20_Witness ==
    /\ publishing = {}
    /\ DOMAIN inboxes = {"Alex", "Bo"}
    /\ staff_ops = 0
    /\ BusMessage("Bo", NoAgent, "general", "", 0) \in Range(inboxes["Alex"])
    /\ inboxes["Bo"] = <<>>
    /\ BusMessage("Bo", "Cy", "general", "", 0) \in Range(history)

\* C16: each time the stop conditions at the top of a cycle are evaluated: if a
\* stop was requested the loop ends with status "cancelled"; otherwise, if the
\* time budget is used up, or the board holds max_total_tasks tasks or more, or
\* a cost cap is set and the accumulated cost has reached it, the loop ends
\* with status "failed"; in these cases no task is created; otherwise the
\* planning task of the cycle is created.
C16_StopConditions ==
    [][goal'.checks = goal.checks + 1 =>
          IF stop_requested
          THEN goal'.pc = "finalize" /\ goal'.final = "cancelled" /\ Len(tasks') = Len(tasks)
          ELSE IF \/ cfg.max_time_seconds > 0 /\ elapsed >= cfg.max_time_seconds
                  \/ Cardinality(board) >= cfg.max_total_tasks
                  \/ cfg.max_cost_usd > 0 /\ tracker.total_cost_usd >= cfg.max_cost_usd
          THEN goal'.pc = "finalize" /\ goal'.final = "failed" /\ Len(tasks') = Len(tasks)
          ELSE /\ goal'.pc = "plan"
               /\ Len(tasks') = Len(tasks) + 1
               /\ tasks'[Len(tasks')].kind = "plan"]_vars

\* C16 witness: the loop ended at the top of its second cycle because the cost
\* of the first cycle reached the cap, the task limit being far
C16_Witness ==
    /\ goal.pc = "finalize"
    /\ goal.final = "failed"
    /\ goal.checks = 2
    /\ goal.cycle = 1
    /\ cfg.max_cost_usd = CostCap
    /\ tracker.total_cost_usd = CostCap
    /\ cfg.max_total_tasks > Cardinality(board)
    /\ NumKind("plan") = 1

\* C17: when the review of a cycle has run: if the review task is DONE the loop
\* ends with status "completed" and starts no further cycle; otherwise, if the
\* cycle was the last one allowed, the loop ends with status "failed";
\* otherwise the next cycle begins with its stop conditions.
C17_AfterReview ==
    [][(goal.pc = "review" /\ goal'.pc # "review") =>
          IF tasks'[goal.review].status = DONE
          THEN /\ goal'.pc = "finalize" /\ goal'.final = "completed"
               /\ goal'.checks = goal.checks /\ Len(tasks') = Len(tasks)
          ELSE IF goal.cycle = cfg.max_cycles - 1
          THEN /\ goal'.pc = "finalize" /\ goal'.final = "failed"
               /\ goal'.checks = goal.checks /\ Len(tasks') = Len(tasks)
          ELSE /\ goal'.cycle = goal.cycle + 1
               /\ goal'.checks = goal.checks + 1]_vars

\* C17 witness: the first review failed, the second cycle ran, its review is DONE
\* and the loop ended with "completed"
C17_Witness ==
    /\ goal.pc = "finalize"
    /\ goal.final = "completed"
    /\ goal.cycle = 1
    /\ NumKind("review") = 2
    /\ tasks[goal.review].status = DONE
    /\ \E t \in TaskIds : tasks[t].kind = "review" /\ tasks[t].status = FAILED

\* C18: when run_goal raises for want of a CEO it has created no task, has
\* left no goal record with status 'active' and has emitted no event.
C18_NoCeoNoWork ==
    goal.pc = "raised" =>
        /\ NumKind("plan") = 0
        /\ goal.emitted = {}
        /\ goal.db # "active"

\* C19: after a request_stop() made while a wave is executing, run_goal starts
\* no further wave and creates no review task and no planning task.
C19_StopAfterWave ==
    [][stop_at = "wave" =>
          /\ \A t \in (1..Len(tasks')) \ TaskIds : tasks'[t].kind \notin {"plan", "review"}
          /\ \A r \in (DOMAIN runners') \ DOMAIN runners : r[1] # "wave"]_vars

\* the k most recent messages of a sequence
MostRecent(m, k) == SubSeq(m, Len(m) - k + 1, Len(m))

\* the history only grows at its end
HistoryAppendOnly ==
    [][Len(history') >= Len(history) /\ SubSeq(history', 1, Len(history)) = history]_vars

\* C21: for every limit >= 0 and topic, get_history(limit, topic) is the
\* sequence of the min(limit, n) most recent of the n messages of that topic
\* in the append-only history, in the order of their publication.
C21_HistoryQuery ==
    \A limit \in 0..(MaxBusMsgs + 1), topic \in {TOPIC_DELEGATE, "general"} :
        LET m == SelectSeq(history, LAMBDA x : x.topic = topic)
            k == IF limit < Len(m) THEN limit ELSE Len(m)
        IN  get_history(history, limit, topic) = MostRecent(m, k)

\* C22: whenever _run_task starts Agent.think on a task, no think was started
\* on that task before: the task is still PENDING or ASSIGNED.
C22_ThinkOnce ==
    [][\A r \in DOMAIN runners :
         (/\ runners[r].pc = "begin"
          /\ IsLive(agents, tasks[CurTask(runners[r])].assignee)
          /\ (r \notin DOMAIN runners' \/ runners'[r] # runners[r])) =>
             tasks[CurTask(runners[r])].status \in {PENDING, ASSIGNED}]_vars

\* C23: the tasks run_goal has created (its planning and review tasks alone,
\* not counting delegated subtasks) are never more than max_total_tasks.
C23_TaskCap == NumKind("plan") + NumKind("review") <= cfg.max_total_tasks

\* C24: a delegated subtask is started by a wave of the execute-waves phase,
\* as one of the tasks the wave launches, and not by the _run_task call of the
\* task that delegated it.
C24_BreadthFirstWaves ==
    [][\A r \in DOMAIN runners :
         (/\ runners[r].pc = "begin"
          /\ tasks[CurTask(runners[r])].kind = "sub"
          /\ tasks[tasks[CurTask(runners[r])].parent_id].kind \in {"plan", "review"}
          /\ IsLive(agents, tasks[CurTask(runners[r])].assignee)
          /\ (r \notin DOMAIN runners' \/ runners'[r] # runners[r])) =>
             /\ goal.pc = "wave"
             /\ r[1] = "wave"
             /\ Len(runners[r].stack) = 1]_vars

\* C25: when the _run_task of one task of a wave raises, run_goal stays in the
\* wave and the other _run_task calls of the wave go on untouched; each of them
\* leaves only after its think returned with its task terminal (or after it
\* failed the task for want of the agent); and the wave ends only when none is
\* left, with the next wave or the review.
C25_WaveSurvivesException ==
    [][/\ (goal'.errors # goal.errors /\ goal'.errors # {}) =>
             /\ goal'.pc = "wave"
             /\ \A r \in DOMAIN runners :
                  (r[1] = "wave" /\ r[2] \notin goal'.errors) =>
                      r \in DOMAIN runners' /\ runners'[r] = runners[r]
       /\ \A r \in DOMAIN runners :
             (/\ r[1] = "wave"
              /\ Len(runners[r].stack) = 1
              /\ runners[r].pc # "post"
              /\ r[2] \notin goal'.errors
              /\ (r \notin DOMAIN runners' \/ runners'[r].pc = "post")) =>
                 is_terminal(tasks'[r[2]])
       /\ (goal.pc = "wave" /\ (goal'.pc # "wave" \/ goal'.wave # goal.wave)) =>
             /\ \A r \in DOMAIN runners : r[1] # "wave"
             /\ goal'.pc \in {"wave", "review"}]_vars

\* C25 witness: a wave gathered two tasks, the _run_task of one raised, the
\* other task is DONE, and run_goal has gone on to the review
C25_Witness ==
    /\ goal.pc = "review"
    /\ Cardinality(goal.gathered) = 2
    /\ Cardinality(goal.errors) = 1
    /\ \E t \in goal.gathered \ goal.errors : tasks[t].status = DONE
    /\ \E t \in goal.errors : tasks[t].status = ASSIGNED

\* think of runner r returns to the _run_task that called it in this step
ThinkReturnsTo(r) ==
    /\ ThinkReturns(r)
    /\ runners'[r].stack = runners[r].stack
    /\ runners'[r].ret # ""

CallBegins(t) ==
    \E r \in DOMAIN runners' :
        /\ runners'[r].pc = "llm"
        /\ CurTask(runners'[r]) = t
        /\ (r \in DOMAIN runners => runners'[r] # runners[r])

\* the step in which provider.complete raises: think returns with the task
\* FAILED and the exception message as its result
ErrorEndsThink ==
    [][\A r \in DOMAIN runners :
         (ThinkReturnsTo(r) /\ runners'[r].ret = "error") =>
            /\ tasks'[CurTask(runners[r])].status = FAILED
            /\ tasks'[CurTask(runners[r])].result = LLM_ERROR]_vars

\* C27: when provider.complete raises, think returns in the same step with
\* the task FAILED and the exception message as its result, and no completion
\* call begins afterwards for a task that failed in this way.
C27_NoRetryAfterError ==
    [][/\ \A r \in DOMAIN runners :
             (ThinkReturnsTo(r) /\ runners'[r].ret = "error") =>
                /\ tasks'[CurTask(runners[r])].status = FAILED
                /\ tasks'[CurTask(runners[r])].result = LLM_ERROR
       /\ \A t \in 1..Len(tasks) :
             (tasks[t].status = FAILED /\ tasks[t].result = LLM_ERROR) => ~CallBegins(t)]_vars

RECURSIVE DropUnknown(_)

\* the tool calls cs without the calls of unknown tools at their head
DropUnknown(cs) ==
    IF cs # <<>> /\ Head(cs) = Tool("unknown") THEN DropUnknown(Tail(cs)) ELSE cs

\* runner r is suspended in a tool call of a task that is not terminal, and
\* the call raises or the call after it names an unknown tool
ToolFails(r) ==
    /\ runners[r].pc = "resume"
    /\ ~is_terminal(tasks[CurTask(runners[r])])
    /\ \/ Head(runners[r].calls) = Tool("raise")
       \/ Len(runners[r].calls) >= 2 /\ runners[r].calls[2] = Tool("unknown")

\* C28: a tool call that raises, or that names an unknown tool, does not end
\* think and does not touch the task: in the step that handles it the
\* _run_task stays inside think unless the iterations are used up, and think
\* goes on with the next tool call of the turn (a tool is awaited, a subtask is
\* created, a report is accepted or rejected) or, after the last call, with the
\* next completion call, the task being as it was.
C28_ToolErrorNotFatal ==
    [][\A r \in DOMAIN runners :
         (ToolFails(r) /\ (r \notin DOMAIN runners' \/ runners'[r] # runners[r])) =>
            LET run == runners[r]
                t == CurTask(run)
                rest == DropUnknown(Tail(run.calls))
            IN  /\ r \in DOMAIN runners'
                /\ runners'[r].stack = run.stack
                /\ runners'[r].ret \notin {"error", "reported"}
                /\ IF rest = <<>>
                   THEN /\ tasks'[t].status \in {DONE, FAILED} <=>
                               run.iter >= cfg.max_agent_iterations
                        /\ run.iter < cfg.max_agent_iterations =>
                               /\ runners'[r].pc = "llm"
                               /\ runners'[r].iter = run.iter
                               /\ tasks'[t] = tasks[t]
                        /\ run.iter >= cfg.max_agent_iterations =>
                               /\ runners'[r].pc = "post"
                               /\ runners'[r].ret \in {"salvaged", "exceeded"}
                   ELSE CASE Head(rest).name = "tool" ->
                               /\ runners'[r].pc = "resume"
                               /\ runners'[r].calls = rest
                               /\ tasks'[t] = tasks[t]
                          [] Head(rest).name = "delegate_task" ->
                               /\ runners'[r].pc = "resume"
                               /\ runners'[r].calls = rest
                               /\ Len(tasks') = Len(tasks) + 1
                               /\ tasks'[Len(tasks')].parent_id = t
                               /\ tasks'[t] = tasks[t]
                          [] OTHER ->
                               \/ is_terminal(tasks'[t])
                               \/ rejections'[run.agent] > rejections[run.agent]]_vars

\* C28 witness: in the first of two turns a think is suspended in a tool
\* that raises, followed by a call of an unknown tool, its task IN_PROGRESS
C28_Witness ==
    \E r \in DOMAIN runners :
        /\ ToolFails(r)
        /\ runners[r].calls = <<Tool("raise"), Tool("unknown")>>
        /\ runners[r].iter = 1
        /\ cfg.max_agent_iterations = 2
        /\ tasks[CurTask(runners[r])].status = IN_PROGRESS

\* runner r is inside the _execute_tool of a report_result call that has made
\* its task terminal (the artifact is registered, the result is being sent)
Reported(r) ==
    /\ runners[r].pc = "resume"
    /\ Head(runners[r].calls).name = "report_result"

\* the part of C29 that does not depend on other coroutines: when the task is
\* still terminal as the report_result call returns, think returns at once
ReportEndsTurn ==
    [][\A r \in DOMAIN runners :
         (/\ Reported(r)
          /\ is_terminal(tasks[CurTask(runners[r])])
          /\ (r \notin DOMAIN runners' \/ runners'[r] # runners[r])) =>
            /\ ThinkReturnsTo(r)
            /\ runners'[r].ret = "reported"
            /\ tasks' = tasks]_vars

\* C29: once a report_result call of a turn has made the task terminal, the
\* step in which that call returns is the return of think: no later call of
\* the turn is executed (the tasks are left as they are, no subtask is
\* created) and no completion call follows.
C29_ReportEndsTurn ==
    [][\A r \in DOMAIN runners :
         (Reported(r) /\ (r \notin DOMAIN runners' \/ runners'[r] # runners[r])) =>
            /\ ThinkReturnsTo(r)
            /\ runners'[r].ret = "reported"
            /\ tasks' = tasks]_vars

\* runner r is suspended in a tool call of a task that is not terminal, and
\* the next call of the turn is report_result(status = "done")
ReportsNext(r) ==
    /\ runners[r].pc = "resume"
    /\ ~is_terminal(tasks[CurTask(runners[r])])
    /\ Len(runners[r].calls) >= 2
    /\ runners[r].calls[2].name = "report_result"
    /\ runners[r].calls[2].status = "done"

\* C30 with the lengths taken after strip(), as _execute_tool takes them
SubstituteOnStrip ==
    [][\A r \in DOMAIN runners :
         (/\ ReportsNext(r)
          /\ runners[r].calls[2].result.slen < MIN_DELIVERABLE_LEN
          /\ runners[r].best.slen > runners[r].calls[2].result.slen
          /\ runners[r].best.slen >= MIN_DELIVERABLE_LEN
          /\ (r \notin DOMAIN runners' \/ runners'[r] # runners[r])) =>
            /\ rejections' = rejections
            /\ tasks'[CurTask(runners[r])].status = DONE
            /\ tasks'[CurTask(runners[r])].result = runners[r].best]_vars

\* C30: a report_result(status = "done") whose result has fewer than 300
\* characters, given while the longest assistant text has at least 300
\* characters and more than the result, is accepted: no rejection is counted
\* and the task is DONE with the longest assistant text as its result.
C30_SubstituteBestText ==
    [][\A r \in DOMAIN runners :
         (/\ ReportsNext(r)
          /\ runners[r].calls[2].result.len < MIN_DELIVERABLE_LEN
          /\ runners[r].best.len > runners[r].calls[2].result.len
          /\ runners[r].best.len >= MIN_DELIVERABLE_LEN
          /\ (r \notin DOMAIN runners' \/ runners'[r] # runners[r])) =>
            /\ rejections' = rejections
            /\ tasks'[CurTask(runners[r])].status = DONE
            /\ tasks'[CurTask(runners[r])].result = runners[r].best]_vars

\* C31: while a report_result(status = "failed", result = r) call that failed
\* the task is being sent on the bus, the FAILED task carries r as its result.
C31_FailureReasonKept ==
    \A r \in DOMAIN runners :
        (/\ Reported(r)
         /\ Head(runners[r].calls).status = "failed"
         /\ tasks[CurTask(runners[r])].status = FAILED) =>
            tasks[CurTask(runners[r])].result = Head(runners[r].calls).result

\* the positions in the history of the task.delegate messages for task s
DelegateMsgsFor(s) ==
    {k \in 1..Len(history) : history[k].topic = TOPIC_DELEGATE /\ history[k].task_id = s}

\* C32: a step creates at most one subtask; a subtask is created PENDING,
\* without assignee, off the board, as a child of the task whose think is
\* suspended in the delegate_task call, together with one task.delegate
\* message that carries the subtask's id and the requested role; and in every
\* state each subtask has exactly one task.delegate message in the history
\* and each task.delegate message names a subtask.
C32_OneMessagePerSubtask ==
    [][/\ Len(tasks') <= Len(tasks) + 1
       /\ \A s \in 1..Len(tasks') :
             (s > Len(tasks) /\ tasks'[s].kind = "sub") =>
                /\ tasks'[s].status = PENDING
                /\ tasks'[s].assignee = NoAgent
                /\ s \notin board'
                /\ Len(history') = Len(history) + 1
                /\ history'[Len(history')].topic = TOPIC_DELEGATE
                /\ history'[Len(history')].task_id = s
                /\ \E r \in DOMAIN runners' :
                     /\ runners'[r].pc = "resume"
                     /\ CurTask(runners'[r]) = tasks'[s].parent_id
                     /\ Head(runners'[r].calls) = Delegate(history'[Len(history')].to_role)
                     /\ history'[Len(history')].from_agent = runners'[r].agent
       /\ \A s \in 1..Len(tasks') :
             tasks'[s].kind = "sub" =>
                Cardinality({k \in 1..Len(history') :
                               /\ history'[k].topic = TOPIC_DELEGATE
                               /\ history'[k].task_id = s}) = 1
       /\ \A k \in 1..Len(history') :
             history'[k].topic = TOPIC_DELEGATE =>
                /\ history'[k].task_id \in 1..Len(tasks')
                /\ tasks'[history'[k].task_id].kind = "sub"]_vars

\* C32 witness: two subtasks of the planning task and their two task.delegate
\* messages, to different roles
C32_Witness ==
    \E s1, s2 \in TaskIds :
        /\ s1 # s2
        /\ tasks[s1].kind = "sub" /\ tasks[s2].kind = "sub"
        /\ tasks[s1].parent_id = tasks[s2].parent_id
        /\ Cardinality(DelegateMsgsFor(s1)) = 1
        /\ Cardinality(DelegateMsgsFor(s2)) = 1
        /\ RoleDelegated(history, s1) # RoleDelegated(history, s2)

\* C33: when the last _run_task of a task returns, every subtask the task
\* delegated is on the task board.
C33_SubtasksOnBoard ==
    [][\A p \in TaskIds :
         (HasFrame(runners, p) /\ ~HasFrame(runners', p)) =>
            \A s \in 1..Len(tasks') :
                (tasks'[s].kind = "sub" /\ tasks'[s].parent_id = p) => s \in board']_vars

\* C34: when run_goal has ended with final status "completed" (the status of
\* the goal's row and of the goal.completed event), some review task is DONE.
C34_CompletedOnlyAfterReview ==
    (goal.pc = "done" /\ goal.db = "completed") => ~NoReviewDone

\* some subtask created by delegate_task is not DONE or FAILED
SubtaskUnfinished == \E s \in TaskIds : tasks[s].kind = "sub" /\ ~is_terminal(tasks[s])

\* C35: when the last _run_task of a task returns, none of the subtasks it
\* delegated is left PENDING; and whenever a subtask created by delegate_task
\* is not terminal, a state follows in which every subtask is DONE or FAILED.
C35_SubtasksFinish ==
    /\ [][\A p \in TaskIds :
             (HasFrame(runners, p) /\ ~HasFrame(runners', p)) =>
                \A s \in 1..Len(tasks') :
                    (tasks'[s].kind = "sub" /\ tasks'[s].parent_id = p) =>
                        tasks'[s].status # PENDING]_vars
    /\ SubtaskUnfinished ~> ~SubtaskUnfinished

\* C35 witness: a subtask was resolved to a hired agent, run and is DONE, and
\* another one, delegated to a role nobody holds, is FAILED
C35_Witness ==
    /\ ~SubtaskUnfinished
    /\ \E s1, s2 \in TaskIds :
         /\ tasks[s1].kind = "sub" /\ tasks[s1].status = DONE
         /\ tasks[s2].kind = "sub" /\ tasks[s2].status = FAILED
         /\ tasks[s2].result = NO_AGENT_AVAILABLE

\* C36: status().running (Company._running) is TRUE exactly while the
\* run_goal call is executing: not before it is called and not after it has
\* returned or raised.
C36_RunningWhileExecuting ==
    running <=> goal.pc \in {"persist", "plan", "wave", "review", "finalize"}

\* C37: once request_stop() has been called while the goal loop was under
\* way, the loop starts no further cycle (it creates no further planning task).
C37_StopNeverLost ==
    [][(stop_at \in {"persist", "plan", "wave", "review"}) => goal'.plan = goal.plan]_vars

\* C38: any two messages of an inbox stand in the bus history in the order
\* in which they stand in the inbox.
C38_InboxOrderIsHistoryOrder ==
    \A a \in DOMAIN inboxes :
        \A i, j \in 1..Len(inboxes[a]) :
            i < j => \E k, l \in 1..Len(history) :
                        /\ k < l
                        /\ history[k] = inboxes[a][i]
                        /\ history[l] = inboxes[a][j]

\* C39: an agent creates a delegation only if its role has delegation targets
\* and the requested role is one of them: every task.delegate message in the
\* history (one per subtask created) was sent by an agent whose role names the
\* message's to_role among its delegation targets.
C39_OnlyOfferedDelegations ==
    \A k \in 1..Len(history) :
        history[k].topic = TOPIC_DELEGATE =>
            /\ history[k].from_agent \in AgentNames
            /\ history[k].to_role \in can_delegate_to[RoleOf[history[k].from_agent]]

\* C40: run_goal starts at most max_cycles cycles (one planning task each) and
\* at most max_waves_per_cycle waves in a cycle; the planning and the review
\* tasks are assigned to the CEO; a cycle under way has its planning task and,
\* from the end of its waves on, its review task: before the review there is
\* one planning task more than review tasks, from the review on as many of
\* each, and after run_goal has returned every cycle has one of each.
C40_CyclesAndWavesBounded ==
    /\ NumKind("plan") <= cfg.max_cycles
    /\ goal.wave <= cfg.max_waves_per_cycle
    /\ goal.pc = "wave" => goal.wave < cfg.max_waves_per_cycle
    /\ goal.pc \in {"plan", "wave", "review"} =>
          /\ goal.cycle < cfg.max_cycles
          /\ NumKind("plan") = goal.cycle + 1
    /\ \A t \in TaskIds :
          tasks[t].kind \in {"plan", "review"} =>
             /\ tasks[t].assignee = goal.ceo
             /\ RoleOf[goal.ceo] = "ceo"
    /\ goal.pc \in {"idle", "persist", "raised"} =>
          NumKind("plan") = 0 /\ NumKind("review") = 0
    /\ goal.pc \in {"plan", "wave"} => NumKind("plan") = NumKind("review") + 1
    /\ goal.pc \in {"review", "finalize", "done"} => NumKind("plan") = NumKind("review")

\* C40 witness: run_goal returned after max_cycles = 3 cycles, each with its
\* planning and its review task
C40_Witness ==
    /\ goal.pc = "done" /\ cfg.max_cycles = 3
    /\ NumKind("plan") = 3 /\ NumKind("review") = 3

\* the wave bound is reached: the first wave of a cycle left a task unfinished
\* and the second, last allowed wave is under way
C40_LastWaveRuns ==
    /\ goal.pc = "wave" /\ goal.wave = cfg.max_waves_per_cycle - 1
    /\ cfg.max_waves_per_cycle > 1

====
